---- MODULE Spec2Model ----
\* Session & streaming transport layer of the Klyra dashboard client:
\* the ApiClient request gateway with its shared token refresh, the upload /
\* download variants, the sendMessage stream decoder, and the chat page that
\* turns its callbacks into the message list.
\*
\* JavaScript runs one task at a time.  A network response or a body read
\* arriving is a task; the continuations of an await on a settled promise are
\* microtasks, which all run before the next task.  The model keeps them in
\* the queue mq: while mq is non-empty only Resume can act.
EXTENDS Integers, Sequences, FiniteSets, TLC

\* ---------------------------------------------------------------- bounds
NReq == 2                      \* number of gateway calls in one run
MaxLines == 2                  \* number of lines in a streamed body
MaxTurns == 2                  \* number of turns submitted in one page visit
MaxSources == 3                \* number of source labels of one message

Req == 1..NReq
PromiseIds == 1..NReq          \* a call starts at most one refresh

\* ---------------------------------------------------------------- values
NoToken == 0                   \* localStorage.getItem("token") === null
NoUser == 0
NoHeader == 0                  \* no Authorization header
NullBearer == -1               \* the header "Bearer null"
Kinds == {"request", "logout", "variant"}
Statuses == {200, 401, 500}

VARIABLES
    token,          \* localStorage "token"
    user,           \* localStorage "user"
    location,       \* window.location.href
    nextTok,        \* next token the backend issues
    isRefreshing,   \* ApiClient.isRefreshing
    refreshPromise, \* ApiClient.refreshPromise (0 = null, else promise id)
    nRef,           \* number of refreshToken() invocations so far
    ref,            \* promise id -> state of that refreshToken() invocation
    mq,             \* microtask queue: calls whose await has been resolved
    req,            \* call id -> frame of that ApiClient call
    memUser,        \* AuthProvider: useState user (NoUser = null)
    isLoading,      \* AuthProvider: useState isLoading
    spc,            \* sendMessage: position
    stok,           \* sendMessage: const token (line 830)
    sauth,          \* sendMessage: Authorization header sent
    ssends,         \* sendMessage: number of fetch calls
    sstatus,        \* sendMessage: response status
    wire,           \* sendMessage: whole response body (chars)
    rest,           \* sendMessage: part of the body not yet read
    calls,          \* sendMessage: callbacks invoked, in order
    reader,         \* sendMessage: response.body?.getReader() gave a reader
    messages,       \* ChatPage: useState messages
    isSending,      \* ChatPage: useState isSending
    activeChatId,   \* ChatPage: useState activeChatId (0 = null)
    clock,          \* Date.now()
    turn,           \* ChatPage: the turn whose callbacks sendMessage holds
    sources,        \* ChatMessage: the sources prop (<<>> = null or empty)
    cleanSources    \* ChatMessage: the memoised list that is displayed

gwVars == <<token, user, location, nextTok, isRefreshing, refreshPromise,
            nRef, ref, mq, req, memUser, isLoading>>
auVars == <<memUser, isLoading>>
stVars == <<spc, stok, sauth, ssends, sstatus, wire, rest, calls, reader>>
cmVars == <<sources, cleanSources>>
pgVars == <<messages, isSending, activeChatId, clock, turn, sources,
            cleanSources>>
vars == <<token, user, location, nextTok, isRefreshing, refreshPromise,
          nRef, ref, mq, req, memUser, isLoading, spc, stok, sauth, ssends, sstatus, wire, rest,
          calls, reader, messages, isSending, activeChatId, clock, turn,
          sources, cleanSources>>

\* ------------------------------------------------------------ gateway
IdleFrame ==
    [pc |-> "idle", kind |-> "request", isRetry |-> FALSE, tok |-> NoToken,
     auth |-> NoHeader, firstAuth |-> NoHeader, sends |-> 0, status |-> 0,
     awaited |-> 0, nAwait |-> 0, seen |-> "none", op |-> "none",
     opOut |-> "none"]

IdleRef ==
    [phase |-> "none", result |-> FALSE, net |-> 0, waiters |-> <<>>,
     newTok |-> NoToken, cause |-> "none"]

\* request(): `if (token) headers["Authorization"] = ...`
AuthHeader(tok) == IF tok # NoToken THEN tok ELSE NoHeader

\* uploadDocument, downloadDocument, uploadNewVersion, bulkImportUsers:
\* `Authorization: `Bearer ${token}`` whatever the token is
VariantAuthHeader(tok) == IF tok # NoToken THEN tok ELSE NullBearer

\* a gateway that retries a retry: the isRetry test is missing
ShouldRefreshNoRetryFlag(status, isRetry, tok) ==
    status = 401 /\ tok # NoToken

\* a gateway that refreshes with nothing to refresh: the token test is missing
ShouldRefreshNoTokenCheck(status, isRetry, tok) ==
    status = 401 /\ ~isRetry

\* request(): `response.status === 401 && !isRetry && token`
ShouldRefresh(status, isRetry, tok) ==
    status = 401 /\ ~isRetry /\ tok # NoToken

\* the variants never look at the status beyond response.ok
VariantShouldRefresh(status, isRetry, tok) == FALSE

\* a gateway without the deduplication test
NeedNewRefreshAlways == TRUE

\* request(): `if (!this.isRefreshing)`
NeedNewRefresh == ~isRefreshing

\* refreshToken(): `if (!token) return false`
RefreshHasToken == token # NoToken

\* a gateway that reads this.refreshPromise again when it resumes, after an
\* earlier waiter has reset it to null
RefreshedReread(r) ==
    refreshPromise # 0 /\ ref[refreshPromise].result

\* request(): `const refreshed = await this.refreshPromise`
Refreshed(r) == ref[req[r].awaited].result

\* a gateway whose retry re-uses the headers built for the first attempt
RetryTokenStale(r) == req[r].tok

\* request(): the retry reads getToken() again (line 716 of the nested call)
RetryToken(r) == token

\* a gateway that navigates to /login but leaves the token in storage
PurgedTokenKept == token

\* request(): localStorage.removeItem("token") / ("user") after a failed refresh
PurgedToken == NoToken
PurgedUser == NoUser

GwInit ==
    /\ token \in {NoToken, 1}
    /\ user = token
    /\ location = "app"
    /\ nextTok = 2
    /\ isRefreshing = FALSE
    /\ refreshPromise = 0
    /\ nRef = 0
    /\ ref = [p \in PromiseIds |-> IdleRef]
    /\ mq = <<>>
    /\ req = [r \in Req |-> IdleFrame]

StIdle ==
    /\ spc = "idle"
    /\ stok = NoToken
    /\ sauth = NoHeader
    /\ ssends = 0
    /\ sstatus = 0
    /\ wire = <<>>
    /\ rest = <<>>
    /\ calls = <<>>
    /\ reader = FALSE


\* a message without sources: nothing is displayed
CmIdle ==
    /\ sources = <<>>
    /\ cleanSources = <<>>

\* the page before any chat is opened
PgIdle ==
    /\ messages = <<>>
    /\ isSending = FALSE
    /\ activeChatId = 0
    /\ clock = 1
    /\ turn = 0
    /\ CmIdle

\* the provider after a startup that ended: the stored user is in memory
AuLoaded ==
    /\ memUser = user
    /\ isLoading = FALSE

\* the provider as mounted: useState(null), useState(true)
AuMount ==
    /\ memUser = NoUser
    /\ isLoading = TRUE

Init == GwInit /\ AuLoaded /\ StIdle /\ PgIdle

\* A caller invokes request() (directly, through api.logout(), or one of the
\* upload/download variants): lines 716-729, 772-773, 891-904.
Call(r, k) ==
    /\ mq = <<>>
    /\ req[r].pc = "idle"
    /\ \A q \in Req : q < r => req[q].pc # "idle"   \* call ids are given in order
    /\ LET hdr == IF k = "variant" THEN VariantAuthHeader(token)
                  ELSE AuthHeader(token)
       IN req' = [req EXCEPT ![r] = [IdleFrame EXCEPT
                     !.pc = "fetch", !.kind = k, !.tok = token,
                     !.auth = hdr, !.firstAuth = hdr, !.sends = 1]]
    /\ UNCHANGED <<token, user, location, nextTok, isRefreshing,
                   refreshPromise, nRef, ref, mq>>
    /\ UNCHANGED auVars
    /\ UNCHANGED stVars
    /\ UNCHANGED pgVars

\* The 401 branch up to `await this.refreshPromise` (lines 732-739).
Await401(r) ==
    IF NeedNewRefresh
    THEN LET p == nRef + 1 IN
         /\ nRef' = p
         /\ isRefreshing' = TRUE
         /\ refreshPromise' = p
         /\ req' = [req EXCEPT ![r].pc = "awaitRefresh", ![r].status = 401,
                               ![r].awaited = p,
                               ![r].nAwait = req[r].nAwait + 1]
         /\ IF RefreshHasToken
            THEN /\ ref' = [ref EXCEPT ![p] = [IdleRef EXCEPT
                              !.phase = "fetch", !.net = 1, !.waiters = <<r>>]]
                 /\ mq' = mq
            ELSE /\ ref' = [ref EXCEPT ![p] = [IdleRef EXCEPT
                              !.phase = "settled", !.waiters = <<r>>,
                              !.cause = "nostored"]]
                 /\ mq' = Append(mq, r)
    ELSE LET p == refreshPromise IN
         /\ UNCHANGED <<nRef, isRefreshing, refreshPromise>>
         /\ req' = [req EXCEPT ![r].pc = "awaitRefresh", ![r].status = 401,
                               ![r].awaited = p,
                               ![r].nAwait = req[r].nAwait + 1]
         /\ ref' = [ref EXCEPT ![p].waiters = Append(@, r)]
         /\ mq' = IF ref[p].phase = "settled" THEN Append(mq, r) ELSE mq

\* The response of fetch() arrives (lines 726-761, 906-911).
FetchResponse(r, status) ==
    /\ mq = <<>>
    /\ req[r].pc = "fetch"
    /\ LET refresh == IF req[r].kind = "variant"
                      THEN VariantShouldRefresh(status, req[r].isRetry, req[r].tok)
                      ELSE ShouldRefresh(status, req[r].isRetry, req[r].tok)
       IN IF refresh
          THEN Await401(r)
          ELSE /\ req' = [req EXCEPT ![r].status = status,
                            ![r].pc = IF status = 200 THEN "okjson" ELSE "errjson"]
               /\ UNCHANGED <<nRef, isRefreshing, refreshPromise, ref, mq>>
    /\ UNCHANGED <<token, user, location, nextTok>>
    /\ UNCHANGED auVars
    /\ UNCHANGED stVars
    /\ UNCHANGED pgVars

\* the User that GET /api/auth/me returns
Me == 1

\* api.logout(): the removeItem calls follow a request that returned
\* (774-777); any other call through the gateway stores nothing on its way out
ApiFinish(r, outcome) ==
    /\ IF outcome = "returned" /\ req[r].kind = "logout"
       THEN token' = NoToken /\ user' = NoUser
       ELSE UNCHANGED <<token, user>>
    /\ UNCHANGED <<location, nextTok, memUser, isLoading>>

\* AuthProvider.login: store token and user, setUser, router.push; a
\* rejected api.login leaves the function at the await
LoginFinish(outcome) ==
    IF outcome = "returned"
    THEN /\ token' = nextTok
         /\ user' = nextTok
         /\ memUser' = nextTok
         /\ nextTok' = nextTok + 1
         /\ location' = "/overview"
         /\ UNCHANGED isLoading
    ELSE UNCHANGED <<token, user, location, nextTok, memUser, isLoading>>

\* a provider whose refreshUser has no catch: the rejection leaves initAuth
\* before setIsLoading(false)
InitFinishNoCatch(outcome) ==
    IF outcome = "returned"
    THEN /\ memUser' = Me
         /\ user' = Me
         /\ isLoading' = FALSE
         /\ UNCHANGED <<token, location, nextTok>>
    ELSE UNCHANGED <<token, user, location, nextTok, memUser, isLoading>>

\* initAuth: refreshUser() with its catch, then setIsLoading(false)
InitFinish(outcome) ==
    /\ IF outcome = "returned"
       THEN /\ memUser' = Me
            /\ user' = Me
            /\ UNCHANGED token
       ELSE /\ memUser' = NoUser
            /\ token' = NoToken
            /\ user' = NoUser
    /\ isLoading' = FALSE
    /\ UNCHANGED <<location, nextTok>>

\* a provider whose purge sits inside the try, after the await
LogoutFinishInsideTry(outcome) ==
    IF outcome = "returned"
    THEN /\ token' = NoToken
         /\ user' = NoUser
         /\ memUser' = NoUser
         /\ location' = "/login"
         /\ UNCHANGED <<nextTok, isLoading>>
    ELSE UNCHANGED <<token, user, location, nextTok, memUser, isLoading>>

\* AuthProvider.logout: whatever api.logout() did, remove token and user,
\* setUser(null), router.push("/login")
LogoutFinish(outcome) ==
    /\ token' = NoToken
    /\ user' = NoUser
    /\ memUser' = NoUser
    /\ location' = "/login"
    /\ UNCHANGED <<nextTok, isLoading>>

\* What runs, in the same turn of the event loop, once a call through the
\* gateway has returned or thrown: the rest of api.logout() and the
\* continuation of the AuthProvider operation that made the call.
Finish(r, outcome) ==
    CASE req[r].op \in {"none", "request"} -> ApiFinish(r, outcome)
      [] req[r].op = "login" -> LoginFinish(outcome)
      [] req[r].op = "init" -> InitFinish(outcome)
      [] req[r].op = "logout" -> LogoutFinish(outcome)

\* a provider whose logout has no try/catch around api.logout()
OpOutcomeNoCatch(op, outcome) ==
    IF outcome = "returned" THEN "resolved" ELSE "rejected"

\* how the promise of the operation settles: logout and initAuth swallow the
\* error of the gateway call, login and the plain calls pass it on
OpOutcome(op, outcome) ==
    IF op \in {"logout", "init"} \/ outcome = "returned"
    THEN "resolved" ELSE "rejected"

\* fetch() rejects (network failure): request() has no catch, the call throws.
FetchThrows(r) ==
    /\ mq = <<>>
    /\ req[r].pc = "fetch"
    /\ req' = [req EXCEPT ![r].pc = "thrown",
                          ![r].opOut = OpOutcome(req[r].op, "thrown")]
    /\ Finish(r, "thrown")
    /\ UNCHANGED <<isRefreshing, refreshPromise, nRef, ref, mq>>
    /\ UNCHANGED stVars
    /\ UNCHANGED pgVars

\* refreshToken() settles: its promise resolves and every awaiting call's
\* continuation is queued, in the order the awaits were made.
Settle(p, result, cause, newTok) ==
    /\ ref' = [ref EXCEPT ![p].phase = "settled", ![p].result = result,
                          ![p].cause = cause, ![p].newTok = newTok]
    /\ mq' = ref[p].waiters

\* The response of the refresh fetch arrives (lines 687-695, 706-708).
RefreshResponse(p, outcome) ==
    /\ mq = <<>>
    /\ ref[p].phase = "fetch"
    /\ CASE outcome = "ok" ->
              /\ ref' = [ref EXCEPT ![p].phase = "json"]
              /\ mq' = mq
         [] outcome = "notok" -> Settle(p, FALSE, "notok", NoToken)
         [] outcome = "neterr" -> Settle(p, FALSE, "neterr", NoToken)
    /\ UNCHANGED <<token, user, location, nextTok, isRefreshing,
                   refreshPromise, nRef, req>>
    /\ UNCHANGED auVars
    /\ UNCHANGED stVars
    /\ UNCHANGED pgVars

\* The body of the refresh response is read (lines 697-708).
RefreshBody(p, body) ==
    /\ mq = <<>>
    /\ ref[p].phase = "json"
    /\ CASE body = "token+user" ->
              /\ token' = nextTok
              /\ user' = nextTok
              /\ nextTok' = nextTok + 1
              /\ Settle(p, TRUE, "ok", nextTok)
         [] body = "token" ->
              /\ token' = nextTok
              /\ user' = user
              /\ nextTok' = nextTok + 1
              /\ Settle(p, TRUE, "ok", nextTok)
         [] body = "notoken" ->
              /\ UNCHANGED <<token, user, nextTok>>
              /\ Settle(p, FALSE, "notoken", NoToken)
         [] body = "badjson" ->
              /\ UNCHANGED <<token, user, nextTok>>
              /\ Settle(p, FALSE, "neterr", NoToken)
    /\ UNCHANGED <<location, isRefreshing, refreshPromise, nRef, req>>
    /\ UNCHANGED auVars
    /\ UNCHANGED stVars
    /\ UNCHANGED pgVars

\* a gateway that resets isRefreshing and leaves the settled promise in place
ClearedPromiseKept == refreshPromise

\* request(): `this.refreshPromise = null` after the await (line 741)
ClearedPromise == 0

\* A call resumes after `await this.refreshPromise` (lines 739-754).
Resume(r) ==
    /\ mq # <<>>
    /\ r = Head(mq)
    /\ mq' = Tail(mq)
    /\ isRefreshing' = FALSE
    /\ refreshPromise' = ClearedPromise
    /\ IF Refreshed(r)
       THEN /\ req' = [req EXCEPT ![r].seen = "true", ![r].pc = "fetch",
                         ![r].isRetry = TRUE, ![r].tok = RetryToken(r),
                         ![r].auth = AuthHeader(RetryToken(r)),
                         ![r].sends = req[r].sends + 1, ![r].status = 0]
            /\ UNCHANGED <<token, user, location>>
       ELSE /\ req' = [req EXCEPT ![r].seen = "false", ![r].pc = "errjson"]
            /\ token' = PurgedToken
            /\ user' = PurgedUser
            /\ location' = "/login"
    /\ UNCHANGED <<nextTok, nRef, ref>>
    /\ UNCHANGED auVars
    /\ UNCHANGED stVars
    /\ UNCHANGED pgVars

\* `await response.json().catch(...)` then `throw new Error(...)` (757-758).
ErrBody(r) ==
    /\ mq = <<>>
    /\ req[r].pc = "errjson"
    /\ req' = [req EXCEPT ![r].pc = "thrown",
                          ![r].opOut = OpOutcome(req[r].op, "thrown")]
    /\ Finish(r, "thrown")
    /\ UNCHANGED <<isRefreshing, refreshPromise, nRef, ref, mq>>
    /\ UNCHANGED stVars
    /\ UNCHANGED pgVars

\* `return response.json()` (761); a body that is not JSON makes the call
\* throw instead.
OkBody(r, parses) ==
    /\ mq = <<>>
    /\ req[r].pc = "okjson"
    /\ LET outcome == IF parses THEN "returned" ELSE "thrown"
       IN /\ req' = [req EXCEPT ![r].pc = outcome,
                                ![r].opOut = OpOutcome(req[r].op, outcome)]
          /\ Finish(r, outcome)
    /\ UNCHANGED <<isRefreshing, refreshPromise, nRef, ref, mq>>
    /\ UNCHANGED stVars
    /\ UNCHANGED pgVars

Next ==
    \/ \E r \in Req, k \in Kinds : Call(r, k)
    \/ \E r \in Req, s \in Statuses : FetchResponse(r, s)
    \/ \E r \in Req : FetchThrows(r)
    \/ \E p \in PromiseIds, o \in {"ok", "notok", "neterr"} : RefreshResponse(p, o)
    \/ \E p \in PromiseIds,
          b \in {"token+user", "token", "notoken", "badjson"} : RefreshBody(p, b)
    \/ \E r \in Req : Resume(r)
    \/ \E r \in Req : ErrBody(r)
    \/ \E r \in Req, ok \in BOOLEAN : OkBody(r, ok)

Spec == Init /\ [][Next]_vars

\* -------------------------------------------------------------- session
\* The operations of AuthProvider.  While isLoading the dashboard layout and
\* the login page render a spinner, so no operation starts before the startup
\* load has ended.
AuthOps == {"login", "logout", "request"}

\* an operation of the session layer calls the gateway
AuthCall(r, op) ==
    /\ mq = <<>>
    /\ ~isLoading
    /\ req[r].pc = "idle"
    /\ \A q \in Req : q < r => req[q].pc # "idle"
    /\ req' = [req EXCEPT ![r] = [IdleFrame EXCEPT
                  !.pc = "fetch", !.op = op,
                  !.kind = IF op = "logout" THEN "logout" ELSE "request",
                  !.tok = token, !.auth = AuthHeader(token),
                  !.firstAuth = AuthHeader(token), !.sends = 1]]
    /\ UNCHANGED <<token, user, location, nextTok, isRefreshing,
                   refreshPromise, nRef, ref, mq>>
    /\ UNCHANGED auVars
    /\ UNCHANGED stVars
    /\ UNCHANGED pgVars

\* the mount effect: initAuth reads the token and, if there is one, awaits
\* refreshUser(); with no token setIsLoading(false) follows at once
InitAuth ==
    /\ isLoading
    /\ \A r \in Req : req[r].pc = "idle"
    /\ IF token # NoToken
       THEN /\ req' = [req EXCEPT ![1] = [IdleFrame EXCEPT
                         !.pc = "fetch", !.op = "init", !.tok = token,
                         !.auth = AuthHeader(token),
                         !.firstAuth = AuthHeader(token), !.sends = 1]]
            /\ UNCHANGED auVars
       ELSE /\ isLoading' = FALSE
            /\ UNCHANGED <<req, memUser>>
    /\ UNCHANGED <<token, user, location, nextTok, isRefreshing,
                   refreshPromise, nRef, ref, mq>>
    /\ UNCHANGED stVars
    /\ UNCHANGED pgVars

\* the session layer at mount, or after a startup that has ended
AuthInit == GwInit /\ (AuMount \/ AuLoaded) /\ StIdle /\ PgIdle

AuthNext ==
    \/ InitAuth
    \/ \E r \in Req, op \in AuthOps : AuthCall(r, op)
    \/ \E r \in Req, s \in Statuses : FetchResponse(r, s)
    \/ \E r \in Req : FetchThrows(r)
    \/ \E p \in PromiseIds, o \in {"ok", "notok", "neterr"} : RefreshResponse(p, o)
    \/ \E p \in PromiseIds,
          b \in {"token+user", "token", "notoken", "badjson"} : RefreshBody(p, b)
    \/ \E r \in Req : Resume(r)
    \/ \E r \in Req : ErrBody(r)
    \/ \E r \in Req, ok \in BOOLEAN : OkBody(r, ok)

AuthSpec == AuthInit /\ [][AuthNext]_vars

\* a visit that begins with the mount of the provider; once the startup load
\* has ended the login page may call login
StartupNext ==
    \/ InitAuth
    \/ \E r \in Req : AuthCall(r, "login")
    \/ \E r \in Req, s \in Statuses : FetchResponse(r, s)
    \/ \E r \in Req : FetchThrows(r)
    \/ \E p \in PromiseIds, o \in {"ok", "notok", "neterr"} : RefreshResponse(p, o)
    \/ \E p \in PromiseIds,
          b \in {"token+user", "token", "notoken", "badjson"} : RefreshBody(p, b)
    \/ \E r \in Req : Resume(r)
    \/ \E r \in Req : ErrBody(r)
    \/ \E r \in Req, ok \in BOOLEAN : OkBody(r, ok)

StartupInit == GwInit /\ AuMount /\ StIdle /\ PgIdle

\* every task that is ready to run is run, and every network call ends
\* (with a response or with a failure)
StartupSpec == StartupInit /\ [][StartupNext]_vars /\ WF_vars(StartupNext)

\* ------------------------------------------------------ streaming transport
\* Text is a sequence of one-character strings.  Prefix stands for the six
\* characters of "data: ".  A payload is written "{" fields "}" with one
\* character per field: "a" or "b" is a token field with that text, "D" is
\* done: true, "E" is an error field, "U" is user_message_id and "A" is
\* assistant_message_id.
Prefix == <<"d", ":">>
NL == "\n"
TokenChars == {"a", "b"}
FieldChars == {"a", "b", "D", "E", "U", "A"}

Lines ==
    { <<"x">>,                               \* keep-alive padding
      Prefix \o <<"{", "a", "}">>,           \* {token: "a"}
      Prefix \o <<"{", "b", "}">>,           \* {token: "b"}
      Prefix \o <<"{", "D", "}">>,           \* {done: true}
      Prefix \o <<"{", "E", "}">>,           \* {error: ...}
      Prefix \o <<"{", "D", "E", "}">>,      \* {done: true, error: ...}
      Prefix \o <<"{", "D", "U", "A", "}">>, \* {done: true, both message ids}
      Prefix \o <<"{", "D", "A", "}">>,      \* {done: true, assistant id only}
      Prefix \o <<"{", "a">> }               \* malformed payload

RECURSIVE Join(_)
Join(ls) == IF ls = <<>> THEN <<>> ELSE Head(ls) \o <<NL>> \o Join(Tail(ls))

\* the longest body: every line has at most 7 characters and a newline
MaxWire == MaxLines * 8

Bodies == { Join(ls) : ls \in UNION { [1..n -> Lines] : n \in 0..MaxLines } }

\* chunk.split("\n"): the pieces between newlines, the last one included
RECURSIVE SplitFrom(_, _)
SplitFrom(s, cur) ==
    IF s = <<>> THEN <<cur>>
    ELSE IF Head(s) = NL THEN <<cur>> \o SplitFrom(Tail(s), <<>>)
         ELSE SplitFrom(Tail(s), Append(cur, Head(s)))

Split(s) == SplitFrom(s, <<>>)

\* line.startsWith("data: ")
StartsWithPrefix(line) ==
    /\ Len(line) >= Len(Prefix)
    /\ SubSeq(line, 1, Len(Prefix)) = Prefix

\* line.slice(6)
Payload(line) == SubSeq(line, Len(Prefix) + 1, Len(line))

\* JSON.parse: succeeds on "{" fields "}" only
Parses(p) ==
    /\ Len(p) >= 2
    /\ p[1] = "{"
    /\ p[Len(p)] = "}"
    /\ \A i \in 2..(Len(p) - 1) : p[i] \in FieldChars

HasField(p, c) == \E i \in 2..(Len(p) - 1) : p[i] = c

\* a callback invocation; uid / aid tell whether onComplete was given a
\* userMessageId / an assistantMessageId
TokenEvent(t) == [cb |-> "token", text |-> t, uid |-> FALSE, aid |-> FALSE]
CompleteEvent == [cb |-> "complete", text |-> "", uid |-> FALSE, aid |-> FALSE]
ErrorEvent == [cb |-> "error", text |-> "", uid |-> FALSE, aid |-> FALSE]

\* onComplete(data.sources || [], data.user_message_id, data.assistant_message_id, ...)
CompleteWith(p) ==
    [CompleteEvent EXCEPT !.uid = HasField(p, "U"), !.aid = HasField(p, "A")]

\* the token field of a parsed payload ("" when there is none; a repeated
\* key keeps its last value)
TokenOf(p) ==
    LET idx == { i \in 2..(Len(p) - 1) : p[i] \in TokenChars }
    IN IF idx = {} THEN ""
       ELSE p[CHOOSE i \in idx : \A j \in idx : j <= i]

\* the body of `for (const line of lines)` (lines 861-876)
ProcessLine(line) ==
    IF StartsWithPrefix(line) /\ Parses(Payload(line))
    THEN LET p == Payload(line) IN
         (IF TokenOf(p) # "" THEN <<TokenEvent(TokenOf(p))>> ELSE <<>>)
         \o (IF HasField(p, "D") THEN <<CompleteWith(p)>> ELSE <<>>)
         \o (IF HasField(p, "E") THEN <<ErrorEvent>> ELSE <<>>)
    ELSE <<>>

\* a decoder whose parse error leaves the loop over the lines
RECURSIVE ProcessLinesAbort(_)
ProcessLinesAbort(ls) ==
    IF ls = <<>> THEN <<>>
    ELSE IF StartsWithPrefix(Head(ls)) /\ ~Parses(Payload(Head(ls)))
         THEN <<>>
         ELSE ProcessLine(Head(ls)) \o ProcessLinesAbort(Tail(ls))

RECURSIVE ProcessLines(_)
ProcessLines(ls) ==
    IF ls = <<>> THEN <<>> ELSE ProcessLine(Head(ls)) \o ProcessLines(Tail(ls))

\* one pass of the read loop over a decoded chunk (lines 857-877)
ProcessChunk(chunk) == ProcessLines(Split(chunk))

\* sendMessage: `Authorization: `Bearer ${token}``
StreamAuthHeader(tok) == IF tok # NoToken THEN tok ELSE NullBearer

\* ------------------------------------------------------------- chat page
\* A message id is <<kind, n>>: `temp-user-${Date.now()}`,
\* `temp-assistant-${Date.now()}`, or an id the backend assigned.
TempUserId(t) == <<"temp-user", t>>
TempAssistantId(t) == <<"temp-assistant", t>>
ServerUserId(t) == <<"srv-user", t>>
ServerAssistantId(t) == <<"srv-assistant", t>>

\* id.startsWith("temp-")
IsTemp(id) == id[1] \in {"temp-user", "temp-assistant"}

\* "Sorry, an error occurred. Please try again." as one symbol
Fallback == <<"Sorry">>

\* what the user can submit: ChatInput sends message.trim() when not empty
Contents == { <<"q">> }

UserEntry(t, content) ==
    [id |-> TempUserId(t), role |-> "user", content |-> content,
     sources |-> "null", isStreaming |-> FALSE]

Placeholder(t) ==
    [id |-> TempAssistantId(t), role |-> "assistant", content |-> <<>>,
     sources |-> "null", isStreaming |-> TRUE]

\* a page that puts the placeholder before the user message
AppendTurnAssistantFirst(msgs, t, content) ==
    msgs \o <<Placeholder(t), UserEntry(t, content)>>

\* setMessages((prev) => [...prev, user message, assistant placeholder])
AppendTurn(msgs, t, content) ==
    msgs \o <<UserEntry(t, content), Placeholder(t)>>

\* a page whose onToken writes to the last message of the list
OnTokenLast(msgs, t, text) ==
    [i \in DOMAIN msgs |->
        IF i = Len(msgs)
        THEN [msgs[i] EXCEPT !.content = @ \o <<text>>]
        ELSE msgs[i]]

\* onToken: content: m.content + token on the entry with the placeholder's id
OnToken(msgs, t, text) ==
    [i \in DOMAIN msgs |->
        IF msgs[i].id = TempAssistantId(t)
        THEN [msgs[i] EXCEPT !.content = @ \o <<text>>]
        ELSE msgs[i]]

\* a page whose onComplete settles the assistant entry only
OnCompleteAssistantOnly(msgs, t, e) ==
    [i \in DOMAIN msgs |->
        IF msgs[i].id = TempAssistantId(t)
        THEN [msgs[i] EXCEPT
                !.id = IF e.aid THEN ServerAssistantId(t) ELSE @,
                !.sources = "list", !.isStreaming = FALSE]
        ELSE msgs[i]]

\* onComplete: one map over the list that settles both entries
OnComplete(msgs, t, e) ==
    [i \in DOMAIN msgs |->
        IF msgs[i].id = TempAssistantId(t)
        THEN [msgs[i] EXCEPT
                !.id = IF e.aid THEN ServerAssistantId(t) ELSE @,
                !.sources = "list", !.isStreaming = FALSE]
        ELSE IF msgs[i].id = TempUserId(t) /\ e.uid
             THEN [msgs[i] EXCEPT !.id = ServerUserId(t)]
             ELSE msgs[i]]

\* onError: fallback content, isStreaming: false
OnError(msgs, t) ==
    [i \in DOMAIN msgs |->
        IF msgs[i].id = TempAssistantId(t)
        THEN [msgs[i] EXCEPT !.content = Fallback, !.isStreaming = FALSE]
        ELSE msgs[i]]

\* one callback of the turn t applied to the message list
ApplyCall(msgs, t, e) ==
    CASE e.cb = "token" -> OnToken(msgs, t, e.text)
      [] e.cb = "complete" -> OnComplete(msgs, t, e)
      [] e.cb = "error" -> OnError(msgs, t)

\* the callbacks of one chunk, applied in the order they were made
RECURSIVE ApplyCalls(_, _, _)
ApplyCalls(msgs, t, es) ==
    IF es = <<>> THEN msgs
    ELSE ApplyCalls(ApplyCall(msgs, t, Head(es)), t, Tail(es))

\* onComplete and onError both end with setIsSending(false)
SendingAfter(sending, es) ==
    IF \E i \in 1..Len(es) : es[i].cb \in {"complete", "error"}
    THEN FALSE ELSE sending

\* sendMessage invokes the callbacks es of the current turn
Deliver(es) ==
    /\ messages' = ApplyCalls(messages, turn, es)
    /\ isSending' = SendingAfter(isSending, es)
    /\ UNCHANGED <<activeChatId, clock, turn>>
    /\ UNCHANGED cmVars

\* sendMessage rejects: the catch of handleSendMessage, setIsSending(false)
Caught ==
    /\ isSending' = FALSE
    /\ UNCHANGED <<messages, activeChatId, clock, turn>>
    /\ UNCHANGED cmVars

\* messageId={message.id.startsWith("temp-") ? undefined : message.id}
MessageIdProp(id) == IF IsTemp(id) THEN <<"undefined">> ELSE id

\* ChatMessage: `!isUser && messageId && !isStreaming && content` shows the
\* feedback buttons
FeedbackOffered(m) ==
    /\ m.role = "assistant"
    /\ MessageIdProp(m.id) # <<"undefined">>
    /\ ~m.isStreaming
    /\ m.content # <<>>

\* chat.messages.map(...) of a chat that already holds one settled turn
History ==
    << [id |-> ServerUserId(0), role |-> "user", content |-> <<"h">>,
        sources |-> "null", isStreaming |-> FALSE],
       [id |-> ServerAssistantId(0), role |-> "assistant", content |-> <<"a">>,
        sources |-> "list", isStreaming |-> FALSE] >>

\* the page with a chat open, new or with its messages loaded
PgInit ==
    /\ messages \in {<<>>, History}
    /\ isSending = FALSE
    /\ activeChatId = 1
    /\ clock = 1
    /\ turn = 0
    /\ CmIdle

StreamInit == GwInit /\ AuLoaded /\ StIdle /\ PgInit

\* sendMessage is called: lines 830-838.
SendMessage ==
    /\ spc = "idle"
    /\ spc' = "fetch"
    /\ stok' = token
    /\ sauth' = StreamAuthHeader(token)
    /\ ssends' = ssends + 1
    /\ UNCHANGED <<sstatus, wire, rest, calls, reader>>
    /\ UNCHANGED gwVars

\* handleSendMessage(content): the guard, the optimistic append, then the
\* call of api.sendMessage (lines 501-528).  Two submissions are at least a
\* millisecond apart, so Date.now() differs between turns.
HandleSendMessage(content) ==
    /\ activeChatId # 0
    /\ ~isSending
    /\ isSending' = TRUE
    /\ turn' = clock
    /\ clock' = clock + 1
    /\ messages' = AppendTurn(messages, clock, content)
    /\ UNCHANGED activeChatId
    /\ UNCHANGED cmVars
    /\ SendMessage

\* a transport that sends the turn again when the first response is a 401
StreamResponseRetry(status, hasBody, body) ==
    /\ spc = "fetch"
    /\ sstatus' = status
    /\ IF status = 401 /\ ssends < 2
       THEN /\ spc' = "fetch"
            /\ ssends' = ssends + 1
            /\ UNCHANGED <<wire, rest, calls, reader>>
            /\ UNCHANGED pgVars
       ELSE IF status # 200
       THEN /\ spc' = "errjson"
            /\ UNCHANGED <<wire, rest, calls, reader, ssends>>
            /\ UNCHANGED pgVars
       ELSE IF ~hasBody
            THEN /\ spc' = "returned"
                 /\ calls' = Append(calls, ErrorEvent)
                 /\ Deliver(<<ErrorEvent>>)
                 /\ UNCHANGED <<wire, rest, reader, ssends>>
            ELSE /\ spc' = "reading"
                 /\ reader' = TRUE
                 /\ wire' = body
                 /\ rest' = body
                 /\ calls' = calls
                 /\ ssends' = ssends
                 /\ UNCHANGED pgVars
    /\ UNCHANGED <<stok, sauth>>
    /\ UNCHANGED gwVars

\* The response arrives (lines 840-850); hasBody = FALSE is a
\* response whose body is null.
StreamResponse(status, hasBody, body) ==
    /\ spc = "fetch"
    /\ sstatus' = status
    /\ IF status # 200
       THEN /\ spc' = "errjson"
            /\ UNCHANGED <<wire, rest, calls, reader>>
            /\ UNCHANGED pgVars
       ELSE IF ~hasBody
            THEN /\ spc' = "returned"
                 /\ calls' = Append(calls, ErrorEvent)
                 /\ Deliver(<<ErrorEvent>>)
                 /\ UNCHANGED <<wire, rest, reader>>
            ELSE /\ spc' = "reading"
                 /\ reader' = TRUE
                 /\ wire' = body
                 /\ rest' = body
                 /\ calls' = calls
                 /\ UNCHANGED pgVars
    /\ UNCHANGED <<stok, sauth, ssends>>
    /\ UNCHANGED gwVars

\* a transport without the `return` after onError: it goes on to the reader
StreamErrBodyNoReturn ==
    /\ spc = "errjson"
    /\ spc' = "reading"
    /\ reader' = TRUE
    /\ calls' = Append(calls, ErrorEvent)
    /\ Deliver(<<ErrorEvent>>)
    /\ UNCHANGED <<stok, sauth, ssends, sstatus, wire, rest>>
    /\ UNCHANGED gwVars

\* `await response.json().catch(...)`, onError(error.detail), return (841-843).
StreamErrBody ==
    /\ spc = "errjson"
    /\ spc' = "returned"
    /\ calls' = Append(calls, ErrorEvent)
    /\ Deliver(<<ErrorEvent>>)
    /\ UNCHANGED <<stok, sauth, ssends, sstatus, wire, rest, reader>>
    /\ UNCHANGED gwVars

\* fetch() rejects: sendMessage has no catch, its promise rejects and the
\* catch of handleSendMessage runs.
StreamFetchThrows ==
    /\ spc = "fetch"
    /\ spc' = "threw"
    /\ Caught
    /\ UNCHANGED <<stok, sauth, ssends, sstatus, wire, rest, calls, reader>>
    /\ UNCHANGED gwVars

\* reader.read() resolves with the next n characters of the body (854-877).
Read(n) ==
    /\ spc = "reading"
    /\ n \in 1..Len(rest)
    /\ LET es == ProcessChunk(SubSeq(rest, 1, n))
       IN calls' = calls \o es /\ Deliver(es)
    /\ rest' = SubSeq(rest, n + 1, Len(rest))
    /\ UNCHANGED <<spc, stok, sauth, ssends, sstatus, wire, reader>>
    /\ UNCHANGED gwVars

\* reader.read() resolves with done: `if (done) break` (855).
ReadDone ==
    /\ spc = "reading"
    /\ rest = <<>>
    /\ spc' = "returned"
    /\ UNCHANGED pgVars
    /\ UNCHANGED <<stok, sauth, ssends, sstatus, wire, rest, calls, reader>>
    /\ UNCHANGED gwVars

\* reader.read() rejects (connection dropped): sendMessage's promise rejects
\* and the catch of handleSendMessage runs.
ReadThrows ==
    /\ spc = "reading"
    /\ spc' = "threw"
    /\ Caught
    /\ UNCHANGED <<stok, sauth, ssends, sstatus, wire, rest, calls, reader>>
    /\ UNCHANGED gwVars

StreamNext ==
    \/ \E c \in Contents : HandleSendMessage(c)
    \/ \E s \in Statuses, hb \in BOOLEAN, b \in Bodies : StreamResponse(s, hb, b)
    \/ StreamErrBody
    \/ StreamFetchThrows
    \/ \E n \in 1..MaxWire : Read(n)
    \/ ReadDone
    \/ ReadThrows

StreamSpec == StreamInit /\ [][StreamNext]_vars

\* The promise of api.sendMessage has settled and handleSendMessage is over:
\* nothing holds the call any more, the next submission makes a new one.
CallOver ==
    /\ spc \in {"returned", "threw"}
    /\ clock <= MaxTurns
    /\ spc' = "idle"
    /\ stok' = NoToken
    /\ sauth' = NoHeader
    /\ ssends' = 0
    /\ sstatus' = 0
    /\ wire' = <<>>
    /\ rest' = <<>>
    /\ calls' = <<>>
    /\ reader' = FALSE
    /\ UNCHANGED gwVars
    /\ UNCHANGED pgVars

\* the page over several turns, one sendMessage call after the other
ChatNext ==
    \/ StreamNext
    \/ CallOver

ChatSpec == StreamInit /\ [][ChatNext]_vars

\* --------------------------------------------- switching chats mid-stream
\* chat.messages of the second chat of the sidebar
OtherHistory ==
    << [id |-> ServerUserId(-1), role |-> "user", content |-> <<"h">>,
        sources |-> "null", isStreaming |-> FALSE],
       [id |-> ServerAssistantId(-1), role |-> "assistant",
        content |-> <<"b">>, sources |-> "list", isStreaming |-> FALSE] >>

\* what api.getChat(c) returns: chat 1 and chat 2 hold one settled turn each,
\* chat 3 is the chat that handleNewChat creates
ServerMessages(c) ==
    CASE c = 1 -> History
      [] c = 2 -> OtherHistory
      [] OTHER -> <<>>

\* a chat of the sidebar is clicked: setActiveChatId(c)
SelectChat(c) ==
    /\ c # activeChatId
    /\ activeChatId' = c
    /\ UNCHANGED <<messages, isSending, clock, turn>>
    /\ UNCHANGED cmVars
    /\ UNCHANGED stVars
    /\ UNCHANGED gwVars

\* fetchMessages of the active chat: api.getChat answers and setMessages
\* replaces the list (lines 399-410)
MessagesLoaded ==
    /\ activeChatId # 0
    /\ messages # ServerMessages(activeChatId)
    /\ messages' = ServerMessages(activeChatId)
    /\ UNCHANGED <<activeChatId, isSending, clock, turn>>
    /\ UNCHANGED cmVars
    /\ UNCHANGED stVars
    /\ UNCHANGED gwVars

\* handleNewChat once api.createChat() has answered (lines 424-429)
HandleNewChat ==
    /\ activeChatId # 3
    /\ activeChatId' = 3
    /\ messages' = <<>>
    /\ UNCHANGED <<isSending, clock, turn>>
    /\ UNCHANGED cmVars
    /\ UNCHANGED stVars
    /\ UNCHANGED gwVars

\* handleDeleteChat of the active chat once api.deleteChat() has answered
\* (lines 438-443)
HandleDeleteChat ==
    /\ activeChatId # 0
    /\ activeChatId' = 0
    /\ messages' = <<>>
    /\ UNCHANGED <<isSending, clock, turn>>
    /\ UNCHANGED cmVars
    /\ UNCHANGED stVars
    /\ UNCHANGED gwVars

\* the bodies streamed while the chats are switched: token, done with both
\* ids, error
SwitchLines ==
    { Prefix \o <<"{", "a", "}">>,
      Prefix \o <<"{", "D", "U", "A", "}">>,
      Prefix \o <<"{", "E", "}">> }

SwitchBodies ==
    { Join(ls) : ls \in UNION { [1..n -> SwitchLines] : n \in 0..MaxLines } }

SwitchNext ==
    \/ \E c \in Contents : HandleSendMessage(c)
    \/ \E s \in Statuses, hb \in BOOLEAN, b \in SwitchBodies :
          StreamResponse(s, hb, b)
    \/ StreamErrBody
    \/ StreamFetchThrows
    \/ \E n \in 1..MaxWire : Read(n)
    \/ ReadDone
    \/ ReadThrows
    \/ \E c \in {1, 2} : SelectChat(c)
    \/ MessagesLoaded
    \/ HandleNewChat
    \/ HandleDeleteChat

SwitchSpec == StreamInit /\ [][SwitchNext]_vars

\* --------------------------------------------------------- source labels
\* A label is a sequence of characters; " " is white space.
Labels ==
    { <<"A">>, <<"a">>, <<"B">>, <<"a", " ">>, <<" ", "A">>,
      <<"A", "b">>, <<"a", "B">> }

SourceLists == UNION { [1..n -> Labels] : n \in 0..MaxSources }

\* String.prototype.toLowerCase, character by character
LowerChar(c) == CASE c = "A" -> "a" [] c = "B" -> "b" [] OTHER -> c

ToLowerCase(s) == [i \in DOMAIN s |-> LowerChar(s[i])]

\* String.prototype.trim
RECURSIVE Trim(_)
Trim(s) ==
    IF s = <<>> THEN s
    ELSE IF Head(s) = " " THEN Trim(Tail(s))
    ELSE IF s[Len(s)] = " " THEN Trim(SubSeq(s, 1, Len(s) - 1))
    ELSE s

\* `source.toLowerCase().trim()`
Normalized(source) == Trim(ToLowerCase(source))

\* a filter that remembers the label as written instead of its normal form
RECURSIVE FilterSeenRaw(_, _)
FilterSeenRaw(srcs, seen) ==
    IF srcs = <<>> THEN <<>>
    ELSE IF Normalized(Head(srcs)) \in seen
         THEN FilterSeenRaw(Tail(srcs), seen)
         ELSE <<Head(srcs)>> \o FilterSeenRaw(Tail(srcs), seen \cup {Head(srcs)})

\* sources.filter(...) with the Set `seen` (ChatMessage.tsx 54-60)
RECURSIVE Filter(_, _)
Filter(srcs, seen) ==
    IF srcs = <<>> THEN <<>>
    ELSE IF Normalized(Head(srcs)) \in seen
         THEN Filter(Tail(srcs), seen)
         ELSE <<Head(srcs)>> \o Filter(Tail(srcs), seen \cup {Normalized(Head(srcs))})

\* the useMemo body: `if (!sources || sources.length === 0) return []`
CleanSources(srcs) == IF srcs = <<>> THEN <<>> ELSE Filter(srcs, {})

\* ChatMessage is rendered with a list of sources; the memo is recomputed in
\* the same render
Render(srcs) ==
    /\ sources' = srcs
    /\ cleanSources' = CleanSources(srcs)
    /\ UNCHANGED <<messages, isSending, activeChatId, clock, turn>>
    /\ UNCHANGED gwVars
    /\ UNCHANGED stVars

CleanNext == \E srcs \in SourceLists : Render(srcs)

CleanSpec == Init /\ [][CleanNext]_vars

\* ------------------------------------------------------------------ claims
Waiters(p) == { r \in Req : req[r].awaited = p }
Outstanding == { p \in PromiseIds : ref[p].phase \in {"fetch", "json"} }
Failed(r) == req[r].pc \in {"errjson", "thrown"}

\* C1: single-flight refresh.  No second refresh request is in flight while
\* one is outstanding, and the calls that await one shared refresh caused
\* exactly one POST /api/auth/refresh between them.
C1_SingleFlight ==
    /\ Cardinality(Outstanding) <= 1
    /\ \A p \in PromiseIds : Cardinality(Waiters(p)) >= 2 => ref[p].net = 1

C1_Witness ==
    \E p \in PromiseIds :
        /\ Cardinality(Waiters(p)) >= 2
        /\ ref[p].phase = "settled"
        /\ ref[p].net = 1

\* C2: all-or-nothing.  Two calls that awaited the same refresh saw the same
\* result, which is the result of that refresh; a call that saw success has
\* re-issued its request, a call that saw failure fails and is not re-issued.
C2_SameOutcome ==
    /\ \A r1, r2 \in Req :
          ( /\ req[r1].awaited # 0
            /\ req[r1].awaited = req[r2].awaited
            /\ req[r1].seen # "none"
            /\ req[r2].seen # "none" ) => req[r1].seen = req[r2].seen
    /\ \A r \in Req :
          /\ req[r].seen = "true" =>
                ref[req[r].awaited].result /\ req[r].isRetry /\ req[r].sends = 2
          /\ req[r].seen = "false" =>
                ~ref[req[r].awaited].result /\ Failed(r) /\ req[r].sends = 1

C2_Witness ==
    \E r1, r2 \in Req :
        /\ r1 # r2
        /\ req[r1].awaited # 0
        /\ req[r1].awaited = req[r2].awaited
        /\ req[r1].seen = "true" /\ req[r2].seen = "true"
        /\ req[r1].sends = 2 /\ req[r2].sends = 2

\* C3: bounded retry.  Every call sends its request at most twice and awaits
\* at most one refresh; a retry answered by 401 fails without another retry.
C3_BoundedRetry ==
    \A r \in Req :
        /\ req[r].sends <= 2
        /\ req[r].nAwait <= 1
        /\ (req[r].isRetry /\ req[r].status = 401) =>
              Failed(r) /\ req[r].sends = 2 /\ req[r].nAwait = 1

C3_Witness ==
    \E r \in Req :
        req[r].isRetry /\ req[r].status = 401 /\ req[r].pc = "thrown"

\* C4: a first attempt sent with a token and answered by 401 awaits the
\* refresh; after a successful refresh the request has been sent exactly
\* twice and the second send carries the token that refresh persisted, which
\* is not the token of the first send.
C4_RetryWithNewToken ==
    \A r \in Req :
        /\ ( /\ req[r].kind # "variant"
             /\ req[r].status = 401
             /\ ~req[r].isRetry
             /\ req[r].firstAuth # NoHeader ) => req[r].awaited # 0
        /\ req[r].seen = "true" =>
              /\ req[r].sends = 2
              /\ req[r].auth # NoHeader
              /\ req[r].auth = ref[req[r].awaited].newTok
              /\ req[r].auth # req[r].firstAuth

C4_Witness ==
    \E r \in Req :
        /\ req[r].seen = "true"
        /\ req[r].pc = "returned"
        /\ req[r].auth = ref[req[r].awaited].newTok

\* C5: when a call learns that its refresh failed, that step removes token
\* and user from storage and sets the location to /login; the call then
\* fails: it is never re-sent and never returns data.
C5_FailedRefreshPurges ==
    /\ [][ \A r \in Req :
              (req[r].seen = "none" /\ req'[r].seen = "false") =>
                 /\ token' = NoToken
                 /\ user' = NoUser
                 /\ location' = "/login" ]_vars
    /\ [](\A r \in Req :
              req[r].seen = "false" => Failed(r) /\ req[r].sends = 1)

C5_Witness ==
    \E r \in Req :
        /\ req[r].seen = "false"
        /\ ref[req[r].awaited].cause = "notoken"
        /\ req[r].pc = "thrown"
        /\ token = NoToken /\ user = NoUser /\ location = "/login"

\* C6: a request made with no token stored is sent once, without an
\* Authorization header; when it is answered by 401, no step of that call
\* (the answer arriving, the throw) starts a refresh, changes storage or
\* navigates, and the call fails.
C6_NoTokenNoRefresh ==
    /\ [][ \A r \in Req :
              ( /\ req[r].kind # "variant"
                /\ req[r].pc # "idle"
                /\ req[r].tok = NoToken
                /\ req'[r].status = 401
                /\ req'[r] # req[r] ) =>
                 /\ UNCHANGED <<token, user, location, nRef, ref,
                                isRefreshing, refreshPromise>>
                 /\ req'[r].awaited = 0 ]_vars
    /\ [](\A r \in Req :
              ( /\ req[r].kind # "variant"
                /\ req[r].pc # "idle"
                /\ req[r].tok = NoToken ) =>
                 /\ req[r].auth = NoHeader
                 /\ req[r].sends = 1
                 /\ req[r].status = 401 => Failed(r))

C6_Witness ==
    \E r \in Req :
        /\ req[r].kind = "request"
        /\ req[r].tok = NoToken
        /\ req[r].status = 401
        /\ req[r].pc = "thrown"

\* C7: the upload and download variants send the Authorization header only
\* when a token exists, and a 401 answer to a variant sent with a token
\* makes it await the shared refresh.
C7_VariantsFollowContract ==
    \A r \in Req :
        (req[r].kind = "variant" /\ req[r].pc # "idle") =>
            /\ req[r].tok = NoToken => req[r].firstAuth = NoHeader
            /\ (req[r].status = 401 /\ ~req[r].isRetry /\ req[r].tok # NoToken)
                  => req[r].awaited # 0

\* C8: a 401 answer to sendMessage starts no refresh, leaves token, user and
\* location as they were when the token was read, is not followed by a
\* second send, and ends in exactly one onError call.
C8_StreamNo401Retry ==
    sstatus = 401 =>
        /\ ssends = 1
        /\ nRef = 0 /\ ~isRefreshing
        /\ token = stok /\ user = stok /\ location = "app"
        /\ spc \in {"errjson", "returned"}
        /\ spc = "returned" => calls = <<ErrorEvent>>

C8_Witness ==
    sstatus = 401 /\ spc = "returned" /\ stok # NoToken /\ calls = <<ErrorEvent>>

\* C9: chunking independence.  When the read loop has ended, the callbacks
\* delivered are those the same body gives when it arrives in one read.
C9_ChunkingIndependence ==
    (spc = "returned" /\ reader) => calls = ProcessChunk(wire)

Terminal(e) == e.cb \in {"complete", "error"}

\* C10: exactly one terminal callback per turn.  A terminal callback is the
\* last callback, the transport has stopped reading once it is made, and a
\* call that has ended has made one.
C10_ExactlyOneTerminal ==
    /\ \A i \in 1..Len(calls) : Terminal(calls[i]) => i = Len(calls)
    /\ (\E i \in 1..Len(calls) : Terminal(calls[i])) => spc = "returned"
    /\ spc \in {"returned", "threw"} =>
          Len(calls) >= 1 /\ Terminal(calls[Len(calls)])

\* the entries of the current turn, whichever ids they carry by now
TurnUserIds == {TempUserId(turn), ServerUserId(turn)}
TurnAssistantIds == {TempAssistantId(turn), ServerAssistantId(turn)}
HasCall(cb) == \E i \in 1..Len(calls) : calls[i].cb = cb

\* the first terminal callback of the call was onError
ErrorCameFirst ==
    \E i \in 1..Len(calls) :
        /\ calls[i].cb = "error"
        /\ \A j \in 1..(i - 1) : calls[j].cb = "token"

\* C11: error terminates the stream.  Once onError has fired for the turn,
\* the assistant message of the turn keeps the fallback content whatever
\* lines the connection delivers afterwards.
C11_ErrorTerminates ==
    ErrorCameFirst =>
        \A i \in DOMAIN messages :
            messages[i].id \in TurnAssistantIds =>
                messages[i].content = Fallback

\* C12: no permanent lock.  When the sendMessage call of a turn has ended, by
\* any path, submission is enabled again.
C12_NoPermanentLock ==
    spc \in {"returned", "threw"} => ~isSending

\* C13: at most one turn in flight.  From the submission of a turn to its
\* terminal callback isSending is true, which closes the guard of
\* handleSendMessage, and the view never holds two assistant messages with
\* isStreaming = true.
C13_OneTurnInFlight ==
    /\ (spc \in {"fetch", "errjson", "reading"}
           /\ ~HasCall("complete") /\ ~HasCall("error")) => isSending
    /\ Cardinality({ i \in DOMAIN messages :
                       messages[i].role = "assistant"
                       /\ messages[i].isStreaming }) <= 1

\* C16: transport failures are delivered through onError and never thrown.
\* The promise of sendMessage never rejects, and a call that ended on a
\* response it could not stream has called onError.
C16_FailuresViaOnError ==
    /\ spc # "threw"
    /\ (spc = "returned" /\ (sstatus # 200 \/ ~reader)) => HasCall("error")

\* onComplete was given both message ids
BothIdsDone ==
    \E i \in 1..Len(calls) :
        calls[i].cb = "complete" /\ calls[i].uid /\ calls[i].aid

\* onComplete was given one message id without the other
PartialIdsDone ==
    \E i \in 1..Len(calls) :
        calls[i].cb = "complete" /\ (calls[i].uid # calls[i].aid)

TurnEntries(ids) == { i \in DOMAIN messages : messages[i].id \in ids }

\* C14: identifier swap atomicity.  Unless a done event named one id
\* without the other, the user entry and the assistant entry of the turn
\* are temporary together or permanent together; once a done event has
\* named both ids, neither entry carries a temporary id.
C14_SwapAtomic ==
    /\ ~PartialIdsDone =>
          \A i \in TurnEntries(TurnUserIds), j \in TurnEntries(TurnAssistantIds) :
              IsTemp(messages[i].id) <=> IsTemp(messages[j].id)
    /\ BothIdsDone =>
          \A i \in TurnEntries(TurnUserIds \cup TurnAssistantIds) :
              ~IsTemp(messages[i].id)

C14_Witness ==
    /\ BothIdsDone
    /\ ~PartialIdsDone
    /\ \E i \in DOMAIN messages : messages[i].id = ServerUserId(turn)
    /\ \E j \in DOMAIN messages : messages[j].id = ServerAssistantId(turn)

\* the texts of the token callbacks, concatenated in the order of the calls
RECURSIVE Texts(_)
Texts(es) ==
    IF es = <<>> THEN <<>>
    ELSE (IF Head(es).cb = "token" THEN <<Head(es).text>> ELSE <<>>)
         \o Texts(Tail(es))

OnlyTokens(es) == \A i \in 1..Len(es) : es[i].cb = "token"

\* what each well-formed event line stands for
EventsOfLine(line) ==
    CASE line = Prefix \o <<"{", "a", "}">> -> <<TokenEvent("a")>>
      [] line = Prefix \o <<"{", "b", "}">> -> <<TokenEvent("b")>>
      [] line = Prefix \o <<"{", "D", "}">> -> <<CompleteEvent>>
      [] line = Prefix \o <<"{", "E", "}">> -> <<ErrorEvent>>
      [] line = Prefix \o <<"{", "D", "E", "}">> -> <<CompleteEvent, ErrorEvent>>
      [] line = Prefix \o <<"{", "D", "U", "A", "}">> ->
            <<[CompleteEvent EXCEPT !.uid = TRUE, !.aid = TRUE]>>
      [] line = Prefix \o <<"{", "D", "A", "}">> ->
            <<[CompleteEvent EXCEPT !.aid = TRUE]>>
      [] OTHER -> <<>>

RECURSIVE EventsOfLines(_)
EventsOfLines(ls) ==
    IF ls = <<>> THEN <<>> ELSE EventsOfLine(Head(ls)) \o EventsOfLines(Tail(ls))

\* the callbacks that the event lines of the whole body stand for
WireEvents == EventsOfLines(Split(wire))

\* C15: token ordering.  When the body is a sequence of token events
\* followed by done and the call has returned, the assistant content is the
\* concatenation of the tokens in arrival order and isStreaming is false;
\* while only tokens have been delivered isStreaming is true.
C15_TokenOrdering ==
    ( /\ turn # 0
      /\ WireEvents # <<>>
      /\ WireEvents[Len(WireEvents)].cb = "complete"
      /\ OnlyTokens(SubSeq(WireEvents, 1, Len(WireEvents) - 1)) ) =>
        \A i \in TurnEntries(TurnAssistantIds) :
            /\ OnlyTokens(calls) => messages[i].isStreaming
            /\ spc = "returned" =>
                  /\ messages[i].content = Texts(WireEvents)
                  /\ ~messages[i].isStreaming

\* C17: a response that is not 2xx gives one onError call, no onToken and no
\* onComplete, and the body is never read as a stream.
C17_OpenFailure ==
    (sstatus # 0 /\ sstatus # 200) =>
        /\ ~reader
        /\ wire = <<>>
        /\ spc \in {"errjson", "returned"}
        /\ spc = "errjson" => calls = <<>>
        /\ spc = "returned" => calls = <<ErrorEvent>>

C17_Witness ==
    sstatus = 500 /\ spc = "returned" /\ calls = <<ErrorEvent>> /\ ~reader

\* C18: in every read, each well-formed event line of the chunk is delivered
\* and every other piece (malformed payload, no prefix) gives no callback,
\* whatever pieces came before it; the loop keeps reading.
C18_MalformedDropped ==
    [][ (spc = "reading" /\ rest' # rest) =>
           /\ spc' = "reading"
           /\ calls' = calls \o EventsOfLines(
                  Split(SubSeq(rest, 1, Len(rest) - Len(rest')))) ]_vars

C18_Witness ==
    /\ wire = Join(<< Prefix \o <<"{", "a">>, Prefix \o <<"{", "b", "}">> >>)
    /\ spc = "returned"
    /\ calls = <<TokenEvent("b")>>

\* C19: the step that submits a turn appends the user message and then the
\* assistant placeholder to the end of the list and issues the request;
\* no other step changes the length of the list.
C19_SubmitAppendsTwo ==
    [][ /\ turn' # turn =>
            /\ spc = "idle" /\ spc' = "fetch" /\ ssends' = ssends + 1
            /\ \E c \in Contents :
                  messages' = messages \o
                    << [id |-> <<"temp-user", clock>>, role |-> "user",
                        content |-> c, sources |-> "null",
                        isStreaming |-> FALSE],
                       [id |-> <<"temp-assistant", clock>>,
                        role |-> "assistant", content |-> <<>>,
                        sources |-> "null", isStreaming |-> TRUE] >>
        /\ Len(messages') # Len(messages) => turn' # turn ]_vars

C19_Witness ==
    /\ spc = "fetch"
    /\ Len(messages) = Len(History) + 2
    /\ SubSeq(messages, 1, Len(History)) = History
    /\ messages[Len(messages)].isStreaming

\* C20: once the error event of a turn has been delivered, the assistant
\* placeholder is not streaming, both entries of the turn keep their
\* temporary ids, and neither is given a messageId or offered feedback.
C20_ErrorKeepsTempIds ==
    HasCall("error") =>
        \A i \in TurnEntries(TurnUserIds \cup TurnAssistantIds) :
            /\ ~messages[i].isStreaming
            /\ IsTemp(messages[i].id)
            /\ MessageIdProp(messages[i].id) = <<"undefined">>
            /\ ~FeedbackOffered(messages[i])

\* no call of the session layer is under way
Quiescent ==
    /\ mq = <<>>
    /\ ~isLoading
    /\ Outstanding = {}
    /\ \A r \in Req : req[r].pc \in {"idle", "returned", "thrown"}

\* C21: session invariant.  Whenever the operations of the session layer
\* (login, startup load, refresh, logout, failed refresh) have all ended,
\* the stored token and the stored user are both present or both absent.
C21_TokenAndUserTogether ==
    Quiescent => ((token = NoToken) <=> (user = NoUser))

\* the step in which the call r of the operation op ends
Ends(r, op) ==
    /\ req[r].op = op
    /\ req[r].pc \notin {"returned", "thrown"}
    /\ req'[r].pc \in {"returned", "thrown"}

\* C22: the step that ends a logout leaves no token and no user in storage,
\* no user in memory and the location at /login, whatever the server call
\* did, and the promise of logout resolves.
C22_LogoutAlwaysPurges ==
    [][ \A r \in Req : Ends(r, "logout") =>
            /\ token' = NoToken
            /\ user' = NoUser
            /\ memUser' = NoUser
            /\ location' = "/login"
            /\ req'[r].opOut = "resolved" ]_vars

C22_Witness ==
    \E r \in Req :
        /\ req[r].op = "logout"
        /\ req[r].pc = "thrown"
        /\ req[r].seen = "false"
        /\ req[r].opOut = "resolved"
        /\ token = NoToken /\ user = NoUser /\ memUser = NoUser
        /\ location = "/login"

LoggedOut == token = NoToken /\ user = NoUser /\ memUser = NoUser

\* C23: idempotent logout.  Every step of a logout made in the logged-out
\* state leaves the state logged out, and such a logout does not throw.
C23_LogoutIdempotent ==
    [][ \A r \in Req :
          (req'[r] # req[r] /\ req'[r].op = "logout" /\ LoggedOut) =>
              /\ LoggedOut'
              /\ req'[r].opOut # "rejected" ]_vars

C23_Witness ==
    \E r \in Req :
        /\ req[r].op = "logout"
        /\ req[r].tok = NoToken
        /\ req[r].opOut = "resolved"
        /\ LoggedOut
        /\ \E q \in Req : q < r /\ req[q].op = "logout" /\ req[q].opOut = "resolved"

\* C24: a login that does not succeed sends its request once, awaits no
\* refresh, forces no navigation and leaves the stored token and user as
\* they were, and it ends by throwing to the caller.
C24_RejectedLoginNotRetried ==
    [][ \A r \in Req :
          ( /\ req'[r] # req[r]
            /\ req'[r].op = "login"
            /\ req'[r].pc # "returned"
            /\ req'[r].status # 200 ) =>
              /\ req'[r].sends = 1
              /\ req'[r].awaited = 0
              /\ token' = token
              /\ user' = user
              /\ location' = location ]_vars

\* C25: startup load.  With a token persisted the mount effect fetches the
\* profile; the step that ends the load leaves user and token stored and the
\* user in memory when the fetch succeeded, and none of the three when it
\* failed; with no token nothing is fetched; and isLoading becomes false in
\* every case.
C25_StartupLoad ==
    /\ [][ /\ (isLoading /\ token # NoToken /\ \A r \in Req : req[r].pc = "idle")
               => (req'[1].op = "init" /\ req'[1].pc = "fetch" /\ isLoading')
           /\ (isLoading /\ ~isLoading') =>
                 IF req[1].op = "init"
                 THEN /\ req'[1].pc = "returned" =>
                           token' # NoToken /\ user' # NoUser /\ memUser' # NoUser
                      /\ req'[1].pc = "thrown" =>
                           token' = NoToken /\ user' = NoUser /\ memUser' = NoUser
                      /\ req'[1].pc \in {"returned", "thrown"}
                 ELSE /\ token = NoToken
                      /\ token' = NoToken /\ user' = user /\ memUser' = NoUser
                      /\ req' = req ]_vars
    /\ <>(~isLoading)

C25_Witness ==
    /\ ~isLoading
    /\ req[1].op = "init"
    /\ req[1].pc = "thrown"
    /\ req[1].sends = 2
    /\ token = NoToken /\ user = NoUser /\ memUser = NoUser

LogoutDone ==
    \E r \in Req : req[r].op = "logout" /\ req[r].pc \in {"returned", "thrown"}

\* C28: once a logout has ended and the token is absent, the only step that
\* stores a token is the end of a successful login.
C28_LogoutNotUndone ==
    [][ (LogoutDone /\ token = NoToken /\ token' # NoToken) =>
           \E r \in Req : Ends(r, "login") /\ req'[r].pc = "returned" ]_vars

\* the elements of s at the indices in I, in the order of s
RECURSIVE AtIndices(_, _, _)
AtIndices(s, I, i) ==
    IF i > Len(s) THEN <<>>
    ELSE (IF i \in I THEN <<s[i]>> ELSE <<>>) \o AtIndices(s, I, i + 1)

\* C26 as stated: the displayed list is the list of first occurrences under
\* comparison that ignores case only.
C26_DedupIgnoringCase ==
    cleanSources =
        AtIndices(sources,
                  { i \in DOMAIN sources :
                      \A j \in 1..(i - 1) :
                          ToLowerCase(sources[j]) # ToLowerCase(sources[i]) },
                  1)

\* the label without the blanks around it
RECURSIVE Core(_)
Core(s) ==
    IF s = <<>> THEN s
    ELSE IF s[Len(s)] = " " THEN Core(SubSeq(s, 1, Len(s) - 1))
    ELSE IF s[1] = " " THEN Core(SubSeq(s, 2, Len(s)))
    ELSE s

\* equal when case and surrounding white space are ignored
SameLabel(a, b) ==
    /\ Len(Core(a)) = Len(Core(b))
    /\ \A k \in 1..Len(Core(a)) :
          \/ Core(a)[k] = Core(b)[k]
          \/ {Core(a)[k], Core(b)[k]} \in {{"A", "a"}, {"B", "b"}}

\* C26 amended: the displayed list keeps, in order and as written, the
\* first occurrence of each label under comparison that ignores case and
\* surrounding white space, and drops every later label equal to an earlier
\* one under that comparison.
C26_DedupNormalized ==
    cleanSources =
        AtIndices(sources,
                  { i \in DOMAIN sources :
                      \A j \in 1..(i - 1) : ~SameLabel(sources[j], sources[i]) },
                  1)

C26_Witness ==
    /\ sources = << <<"A">>, <<"a">>, <<"B">> >>
    /\ cleanSources = << <<"A">>, <<"B">> >>

\* C29: lock and streaming flag agree.  Whenever submission is enabled
\* (isSending is false) no message of the list is streaming.
C29_LockMatchesStreaming ==
    ~isSending => \A i \in DOMAIN messages : ~messages[i].isStreaming

\* C30: a stream event changes only the two entries of its turn.  In every
\* step that delivers callbacks the list keeps its length, every entry that
\* does not carry a temporary id of the turn is unchanged, and an entry that
\* changes keeps its place and its role - also when the list has been
\* replaced since the turn was submitted.
C30_EventsTouchOwnTurnOnly ==
    [][ calls' # calls /\ calls' # <<>> =>
          /\ Len(messages') = Len(messages)
          /\ \A i \in DOMAIN messages :
                /\ messages[i].id \notin {TempUserId(turn), TempAssistantId(turn)}
                      => messages'[i] = messages[i]
                /\ messages'[i].role = messages[i].role ]_vars

C30_Witness ==
    /\ turn # 0
    /\ activeChatId = 2
    /\ messages = OtherHistory
    /\ spc = "returned"
    /\ Len(calls) = MaxLines
    /\ ~isSending

====
